---- MODULE Spec2Model ----
(***************************************************************************)
(* A model of e-queo-pdf.py: the paginated fetches, the per-program loop   *)
(* of main, and the assembly of a program's Markdown document.             *)
(*                                                                         *)
(* A Python str is a sequence of one-character strings; a dict is a        *)
(* sequence of entries with distinct keys, in insertion order; the HTTP    *)
(* server is the environment: each response is chosen among the values    *)
(* below.                                                                  *)
(***************************************************************************)
EXTENDS Integers, Sequences, FiniteSets, TLC

\* ------------------------------------------------------------- bounds
\* The largest pages_count a response reports.
MaxPagesCount == 2
\* The longest text given to shift_headings in SpecShift.
MaxLen == 4
\* The largest level given to shift_headings in SpecShift.
MaxLevel == 2
\* The largest 'order' of a section or a material in SpecAssemble.
MaxOrder == 2

\* ------------------------------------------------------------ strings
NL == "\n"
HASH == "#"

RECURSIVE Concat(_)
\* The concatenation of a sequence of sequences (used to state properties).
Concat(ss) == IF ss = <<>> THEN <<>> ELSE Head(ss) \o Concat(Tail(ss))

RECURSIVE Hashes(_)
\* '#'*level
Hashes(level) == IF level <= 0 THEN <<>> ELSE <<HASH>> \o Hashes(level - 1)

RECURSIVE RunEnd(_, _)
\* The index of the last '#' of the run of '#' that starts at md[i].
RunEnd(md, i) ==
  IF i < Len(md) /\ md[i + 1] = HASH THEN RunEnd(md, i + 1) ELSE i

RECURSIVE SubFrom(_, _, _, _)
\* re.sub(r'^(#+)', r'\1' + shift, md, flags=re.MULTILINE) from index i on;
\* atStart says that i is the start of the string or follows a newline.
SubFrom(md, i, atStart, shift) ==
  IF i > Len(md) THEN <<>>
  ELSE IF atStart /\ md[i] = HASH
       THEN LET j == RunEnd(md, i)
            IN SubSeq(md, i, j) \o shift \o SubFrom(md, j + 1, FALSE, shift)
       ELSE <<md[i]>> \o SubFrom(md, i + 1, md[i] = NL, shift)

\* A plausible slip: the MULTILINE flag left out, so ^ matches only at the
\* start of the string.
shift_headings_first_line_only(md, level) ==
  IF md # <<>> /\ md[1] = HASH
  THEN LET j == RunEnd(md, 1)
       IN SubSeq(md, 1, j) \o Hashes(level) \o SubSeq(md, j + 1, Len(md))
  ELSE md

shift_headings(md, level) == SubFrom(md, 1, TRUE, Hashes(level))

\* f'# {heading}\n\n\n{text}\n'
Block(heading, text) ==
  <<HASH, " ">> \o heading \o <<NL, NL, NL>> \o text \o <<NL>>

RECURSIVE RemoveSlashes(_)
RemoveSlashes(name) ==
  IF name = <<>> THEN <<>>
  ELSE (IF Head(name) = "/" THEN <<>> ELSE <<Head(name)>>)
       \o RemoveSlashes(Tail(name))

\* pathvalidate's sanitize_filename: the characters a file name cannot hold
\* (here '/') are removed.
sanitize_filename(name) == RemoveSlashes(name)

\* ------------------------------------------------------ sorted(..., key=order)
\* A plausible slip: an unstable sort, which puts an item before the items of
\* equal 'order' already placed.
InsertByOrder_before_equal(x, t) ==
  LET k == Cardinality({i \in 1..Len(t) : t[i].order < x.order})
  IN SubSeq(t, 1, k) \o <<x>> \o SubSeq(t, k + 1, Len(t))

\* One step of Python's stable sort: x, which followed the items of t in the
\* input, goes after every item of t whose 'order' is not greater.
InsertByOrder(x, t) ==
  LET k == Cardinality({i \in 1..Len(t) : t[i].order <= x.order})
  IN SubSeq(t, 1, k) \o <<x>> \o SubSeq(t, k + 1, Len(t))

RECURSIVE sorted(_)
\* sorted(s, key=lambda x: x['order'])
sorted(s) ==
  IF s = <<>> THEN <<>>
  ELSE InsertByOrder(s[Len(s)], sorted(SubSeq(s, 1, Len(s) - 1)))

\* ------------------------------------------------- create_program_content_md
\* A plausible slip: the last entry with the id, not the first.
next_content_last(longreads_content, id) ==
  LET hits == {i \in 1..Len(longreads_content) : longreads_content[i].id = id}
  IN IF hits = {} THEN [none |-> TRUE, content |-> <<>>]
     ELSE [none |-> FALSE,
           content |-> longreads_content[CHOOSE i \in hits : \A j \in hits : j <= i].content]

\* A plausible slip: a missing entry read as the empty text.
next_content_or_empty(longreads_content, id) ==
  LET hits == {i \in 1..Len(longreads_content) : longreads_content[i].id = id}
  IN IF hits = {} THEN [none |-> FALSE, content |-> <<>>]
     ELSE [none |-> FALSE,
           content |-> longreads_content[CHOOSE i \in hits : \A j \in hits : i <= j].content]

\* next((x['content'] for x in longreads_content if x['id'] == id), None)
next_content(longreads_content, id) ==
  LET hits == {i \in 1..Len(longreads_content) : longreads_content[i].id = id}
  IN IF hits = {} THEN [none |-> TRUE, content |-> <<>>]
     ELSE [none |-> FALSE,
           content |-> longreads_content[CHOOSE i \in hits : \A j \in hits : i <= j].content]

RECURSIVE MaterialsMd(_, _)
\* The inner loop of create_program_content_md over the sorted materials of a
\* section: raised when shift_headings is given None (re.sub raises TypeError).
MaterialsMd(materials, longreads_content) ==
  IF materials = <<>> THEN [raised |-> FALSE, md |-> <<>>]
  ELSE LET material == Head(materials)
           text == next_content(longreads_content, material.id)
           rest == MaterialsMd(Tail(materials), longreads_content)
       IN IF text.none \/ rest.raised THEN [raised |-> TRUE, md |-> <<>>]
          ELSE [raised |-> FALSE,
                md |-> Block(material.name, shift_headings(text.content, 1)) \o rest.md]

RECURSIVE create_program_content_md(_, _)
create_program_content_md(sections, longreads_content) ==
  IF sections = <<>> THEN [raised |-> FALSE, md |-> <<>>]
  ELSE LET here == MaterialsMd(sorted(Head(sections).materials), longreads_content)
           rest == create_program_content_md(Tail(sections), longreads_content)
       IN IF here.raised \/ rest.raised THEN [raised |-> TRUE, md |-> <<>>]
          ELSE [raised |-> FALSE, md |-> here.md \o rest.md]

\* ----------------------------------------------------------- filter_longreads
\* A plausible slip: the materials that are not longreads are kept.
keep_material_negated(material, longreads_ids) ==
  \A i \in 1..Len(longreads_ids) : longreads_ids[i] # material.id

\* x['id'] in longreads_ids
keep_material(material, longreads_ids) ==
  \E i \in 1..Len(longreads_ids) : longreads_ids[i] = material.id

filter_longreads(program, longreads_ids) ==
  [program EXCEPT !.sections =
     [s \in 1..Len(program.sections) |->
        [program.sections[s] EXCEPT !.materials =
           SelectSeq(program.sections[s].materials,
                     LAMBDA x : keep_material(x, longreads_ids))]]]

\* ------------------------------------------------------------------ state
VARIABLES
  pc,                  \* where the script is
  outstanding,         \* the HTTP requests sent and not yet answered
  page_num,            \* the page_num of the fetch that is running
  programs,            \* main's programs: a dict, as its entries in insertion order
  program_idx,         \* the position of `for program_id in programs`
  longreads_ids,       \* get_longread_ids' list, then main's
  longreads,           \* get_longreads_uuids' list, then main's
  longreads_content,   \* main's longreads_content
  program_content_md,  \* main's program_content_md
  files,               \* the output tree: <<directory, file name>> -> content
  \* what the run has done so far (observed, never read by the script)
  failed,              \* an HTTP request has failed
  fetch,               \* the paginated fetch running or just finished, if any
  requested,           \* the page numbers that fetch has requested
  responses,           \* the responses it got: [pages_count, items]
  log,                 \* the steps taken, <<step, program_idx>>, repeats of a step once
  content_requests,    \* the content requests sent for the current program
  docs,                \* the document assembled for each program processed
  before_filter,       \* the current program as it was before filter_longreads
  \* the inputs and results of the functions checked on their own
  md_in, level_in, name_in, shifted, block_out,
  sections_in, ids_in, content_in, assembled

pipeline_vars ==
  <<pc, outstanding, page_num, programs, program_idx, longreads_ids, longreads,
    longreads_content, program_content_md, files, failed, fetch, requested,
    responses, log, content_requests, docs, before_filter>>
shift_vars == <<md_in, level_in, name_in, shifted, block_out>>
assemble_vars == <<sections_in, ids_in, content_in, assembled>>
vars == <<pipeline_vars, shift_vars, assemble_vars>>

\* ------------------------------------------------- what the server may answer
ApiMaterial(id, name, order) ==
  [id |-> id, name |-> name, order |-> order, type |-> "longread"]
ApiSection(id, name, order, materials) ==
  [id |-> id, name |-> name, order |-> order, materials |-> materials, icon |-> "i"]
ApiProgram(id, name, order, sections) ==
  [id |-> id, name |-> name, order |-> order, sections |-> sections, status |-> "open"]

\* The learning programs a page of /learning-programs may hold.
ApiPrograms ==
  { ApiProgram(1, <<"a">>, 1,
      << ApiSection(1, <<"s">>, 2,
           << ApiMaterial(1, <<"m">>, 2), ApiMaterial(2, <<"n">>, 1) >>),
         ApiSection(2, <<"t">>, 1, << ApiMaterial(1, <<"m">>, 1) >>) >>),
    ApiProgram(2, <<"a", "/">>, 2,
      << ApiSection(1, <<"s">>, 2, << ApiMaterial(1, <<"m">>, 1) >>),
         ApiSection(2, <<"t">>, 1, << >>) >>),
    ApiProgram(2, <<"b">>, 2, << >>),
    ApiProgram(1, <<"b">>, 1,
      << ApiSection(1, <<"s">>, 1, << ApiMaterial(2, <<"n">>, 1) >>) >>) }

ProgramPages ==
  {<< >>} \cup {<<p>> : p \in ApiPrograms}
          \cup {<<p, q>> \in ApiPrograms \X ApiPrograms : p.id = 2 /\ q.name = p.name /\ q.id = 1}

MaterialIds == {1, 2}
\* The pages of /materials-cr: the materials with their types.
MaterialPages ==
  { << >>,
    << [id |-> 1, type |-> "longread"] >>,
    << [id |-> 1, type |-> "video"], [id |-> 2, type |-> "longread"] >>,
    << [id |-> 2, type |-> "longread"], [id |-> 3, type |-> "video"],
       [id |-> 1, type |-> "longread"] >> }

\* The pages of /materials/longreads/pages/titles: the server numbers the
\* pages of a longread, so the entries of different response pages differ.
TitlePages(page) ==
  {<< >>} \cup {<<[longread_id |-> i, uuid |-> page, title |-> "t"]>> : i \in MaterialIds}

\* The bodies /materials/longreads/page may return.
Contents == { <<"x">>, <<HASH, "y">> }

NoFile == << >>
Directories == {"md", "html", "pdf"}
FileNames == {sanitize_filename(p.name) : p \in ApiPrograms}

\* markdown.markdown and pdfkit.from_file are external renderers: the result
\* is known only as the rendering of its input.
TOC == <<"[TOC] ", NL, NL>>
markdown_markdown(md) == <<"<html>">> \o md
pdfkit_from_file(html) == <<"%PDF">> \o html

\* ------------------------------------------------------ get_learning_programs
lambda_extract_materials(material) ==
  [id |-> material.id, name |-> material.name, order |-> material.order]

lambda_extract_sections(section) ==
  [id |-> section.id, name |-> section.name, order |-> section.order,
   materials |-> [m \in 1..Len(section.materials) |->
                    lambda_extract_materials(section.materials[m])]]

\* The value stored under program['id'], with its key.
ExtractProgram(program) ==
  [id |-> program.id, name |-> program.name,
   sections |-> [k \in 1..Len(program.sections) |->
                   lambda_extract_sections(program.sections[k])],
   order |-> program.order]

\* programs[program['id']] = {...}: a key already there keeps its place and
\* gets the new value.
DictSet(dict, entry) ==
  IF \E i \in 1..Len(dict) : dict[i].id = entry.id
  THEN [i \in 1..Len(dict) |-> IF dict[i].id = entry.id THEN entry ELSE dict[i]]
  ELSE Append(dict, entry)

RECURSIVE MergePrograms(_, _)
\* for program in response['success']['learning_programs']: ...
MergePrograms(dict, items) ==
  IF items = << >> THEN dict
  ELSE MergePrograms(DictSet(dict, ExtractProgram(Head(items))), Tail(items))

\* A plausible slip: <= for <.
has_next_inclusive(page, pages_count) == page <= pages_count

\* has_next = page_num < response['success']['meta']['pagination']['pages_count']
has_next(page, pages_count) == page < pages_count

\* ------------------------------------------------------------- the fetches
RequestSteps == {"programs", "ids", "uuids", "content"}

LogStep(step) ==
  IF log # << >> /\ log[Len(log)] = <<step, program_idx>> THEN log
  ELSE Append(log, <<step, program_idx>>)

\* requests.get / requests.post: the request leaves; the call returns with the
\* response (or raises) in a later step.
SendRequest ==
  /\ pc \in RequestSteps
  /\ outstanding = 0
  /\ outstanding' = outstanding + 1
  /\ log' = LogStep(pc)
  /\ IF pc = "content"
     THEN /\ content_requests' = content_requests + 1
          /\ fetch' = "none" /\ requested' = << >> /\ responses' = << >>
     ELSE /\ fetch' = pc
          /\ requested' = IF page_num = 1 THEN <<1>> ELSE Append(requested, page_num)
          /\ responses' = IF page_num = 1 THEN << >> ELSE responses
          /\ UNCHANGED content_requests
  /\ UNCHANGED <<pc, page_num, programs, program_idx, longreads_ids, longreads,
                 longreads_content, program_content_md, files, failed, docs,
                 before_filter, shift_vars, assemble_vars>>

\* A plausible slip: the failure is swallowed and the request sent again.
raise_SystemExit_retry(step) == step

\* A plausible slip: the failure of a fetch of a program is logged and the
\* program goes on to its document with what was fetched.
raise_SystemExit_swallowed(step) ==
  IF step = "programs" THEN "aborted" ELSE "assemble"

\* raise SystemExit(...): nothing catches it, the process exits.
raise_SystemExit(step) == "aborted"

\* except requests.exceptions.RequestException: the request or
\* raise_for_status raised (the same in all four fetches).
HttpFailure ==
  /\ pc \in RequestSteps
  /\ outstanding = 1
  /\ outstanding' = 0
  /\ failed' = TRUE
  /\ pc' = raise_SystemExit(pc)
  /\ UNCHANGED <<page_num, programs, program_idx, longreads_ids, longreads,
                 longreads_content, program_content_md, files, fetch,
                 requested, responses, log, content_requests, docs,
                 before_filter, shift_vars, assemble_vars>>

\* The top of main's loop for the program at position k, or its end.
\* longreads_ids and longreads keep their old values in the code until the
\* fetches return; nothing reads them, and they are cleared here.
StartProgram(k, progs) ==
  /\ program_idx' = k
  /\ IF k > Len(progs)
     THEN /\ pc' = "done"
          /\ UNCHANGED <<page_num, longreads_ids, longreads, longreads_content,
                         program_content_md, content_requests>>
     ELSE /\ pc' = "ids"
          /\ page_num' = 1
          /\ longreads_ids' = << >>
          /\ longreads' = << >>
          /\ longreads_content' = << >>
          /\ program_content_md' = << >>
          /\ content_requests' = 0

ProgramsResponse ==
  /\ pc = "programs"
  /\ outstanding = 1
  /\ \E items \in ProgramPages, pages_count \in 0..MaxPagesCount :
       LET merged == MergePrograms(programs, items)
       IN /\ outstanding' = 0
          /\ responses' = Append(responses, [pages_count |-> pages_count, items |-> items])
          /\ programs' = merged
          /\ IF has_next(page_num, pages_count)
             THEN /\ page_num' = page_num + 1
                  /\ UNCHANGED <<pc, program_idx, longreads_ids, longreads,
                                 longreads_content, program_content_md, content_requests>>
             ELSE StartProgram(1, merged)
  /\ UNCHANGED <<files, failed, fetch, requested, log, docs,
                 before_filter, shift_vars, assemble_vars>>

\* lambda x: x['type'] == 'longread'
is_longread(material) == material.type = "longread"

LongreadIdsOf(items) ==
  LET kept == SelectSeq(items, is_longread)
  IN [i \in 1..Len(kept) |-> kept[i].id]

IdsResponse ==
  /\ pc = "ids"
  /\ outstanding = 1
  /\ \E items \in MaterialPages, pages_count \in 0..MaxPagesCount :
       /\ outstanding' = 0
       /\ responses' = Append(responses, [pages_count |-> pages_count, items |-> items])
       /\ longreads_ids' = longreads_ids \o LongreadIdsOf(items)
       /\ IF has_next(page_num, pages_count)
          THEN page_num' = page_num + 1 /\ pc' = pc
          ELSE page_num' = 1 /\ pc' = "uuids"
  /\ UNCHANGED <<programs, program_idx, longreads, longreads_content,
                 program_content_md, files, failed, fetch, requested, log,
                 content_requests, docs, before_filter, shift_vars, assemble_vars>>

TitlesOf(items) ==
  [i \in 1..Len(items) |-> [id |-> items[i].longread_id, uuid |-> items[i].uuid]]

\* A plausible slip: the content loop left after its first longread.
after_content_break(k, n) == "assemble"

\* for longread in longreads: the next entry, or the end of the loop.
after_content(k, n) == IF k >= n THEN "assemble" ELSE "content"

UuidsResponse ==
  /\ pc = "uuids"
  /\ outstanding = 1
  /\ \E items \in TitlePages(page_num), pages_count \in 0..MaxPagesCount :
       LET all == longreads \o TitlesOf(items)
       IN /\ outstanding' = 0
          /\ responses' = Append(responses, [pages_count |-> pages_count, items |-> items])
          /\ longreads' = all
          /\ IF has_next(page_num, pages_count)
             THEN page_num' = page_num + 1 /\ pc' = pc
             ELSE page_num' = 1 /\ pc' = after_content(0, Len(all))
  /\ UNCHANGED <<programs, program_idx, longreads_ids, longreads_content,
                 program_content_md, files, failed, fetch, requested, log,
                 content_requests, docs, before_filter, shift_vars, assemble_vars>>

\* get_longread_content for the next entry of longreads, and main's append.
ContentResponse ==
  /\ pc = "content"
  /\ outstanding = 1
  /\ \E body \in Contents :
       LET k == Len(longreads_content) + 1
       IN /\ outstanding' = 0
          /\ longreads_content' =
               Append(longreads_content, [id |-> longreads[k].id, content |-> body])
          /\ pc' = after_content(k, Len(longreads))
  /\ UNCHANGED <<page_num, programs, program_idx, longreads_ids, longreads,
                 program_content_md, files, failed, fetch, requested,
                 responses, log, content_requests, docs, before_filter,
                 shift_vars, assemble_vars>>

\* ------------------------------------------------------- main, after the fetches
file_name == sanitize_filename(programs[program_idx].name)

\* main, lines 213-223: filter_longreads, the sort of the sections and
\* create_program_content_md; the program as filtered, and the document or
\* the exception.
program_document(program, ids, content) ==
  LET filtered == filter_longreads(program, ids)
      sections == sorted(filtered.sections)
  IN [program |-> filtered,
      result |-> create_program_content_md(sections, content)]

\* main, lines 213-226: the document of the current program and the TOC
\* marker. A None text makes shift_headings raise, which nothing catches.
Assemble ==
  /\ pc = "assemble"
  /\ LET made == program_document(programs[program_idx], longreads_ids, longreads_content)
     IN /\ before_filter' = programs[program_idx]
        /\ fetch' = "none" /\ requested' = << >> /\ responses' = << >>
        /\ programs' = [programs EXCEPT ![program_idx] = made.program]
        /\ IF made.result.raised
           THEN /\ pc' = "crashed"
                /\ UNCHANGED <<program_content_md, docs>>
           ELSE /\ pc' = "write_md"
                /\ program_content_md' = TOC \o made.result.md
                /\ docs' = Append(docs, TOC \o made.result.md)
  /\ UNCHANGED <<outstanding, page_num, program_idx, longreads_ids, longreads,
                 longreads_content, files, failed, log, content_requests,
                 shift_vars, assemble_vars>>

\* with open(f'output/md/{file_name}.md', 'w') as f: f.write(program_content_md)
WriteMd ==
  /\ pc = "write_md"
  /\ files' = [files EXCEPT ![<<"md", file_name>>] = program_content_md]
  /\ log' = LogStep("md")
  /\ pc' = "write_htm"
  /\ UNCHANGED <<outstanding, page_num, programs, program_idx, longreads_ids,
                 longreads, longreads_content, program_content_md, failed, fetch, requested, responses, content_requests, docs,
                 before_filter, shift_vars, assemble_vars>>

\* html = markdown.markdown(program_content_md, ...); f.write(html)
WriteHtm ==
  /\ pc = "write_htm"
  /\ files' = [files EXCEPT ![<<"html", file_name>>] = markdown_markdown(program_content_md)]
  /\ log' = LogStep("htm")
  /\ pc' = "write_pdf"
  /\ UNCHANGED <<outstanding, page_num, programs, program_idx, longreads_ids,
                 longreads, longreads_content, program_content_md, failed, fetch, requested, responses, content_requests, docs,
                 before_filter, shift_vars, assemble_vars>>

\* pdfkit.from_file(the .htm file, the .pdf file), then the next program.
WritePdf ==
  /\ pc = "write_pdf"
  /\ files' = [files EXCEPT ![<<"pdf", file_name>>] =
                 pdfkit_from_file(files[<<"html", file_name>>])]
  /\ log' = LogStep("pdf")
  /\ StartProgram(program_idx + 1, programs)
  /\ UNCHANGED <<outstanding, programs, failed, fetch, requested,
                 responses, docs, before_filter, shift_vars, assemble_vars>>

\* ------------------------------------------------------------ specification
NoProgram == [id |-> 0, name |-> << >>, sections |-> << >>, order |-> 0]
NoResult == [raised |-> FALSE, md |-> << >>]

PipelineIdle ==
  /\ outstanding = 0 /\ page_num = 1 /\ programs = << >> /\ program_idx = 0
  /\ longreads_ids = << >> /\ longreads = << >> /\ longreads_content = << >>
  /\ program_content_md = << >>
  /\ files = [f \in Directories \X FileNames |-> NoFile]
  /\ failed = FALSE /\ fetch = "none" /\ requested = << >>
  /\ responses = << >> /\ log = << >> /\ content_requests = 0 /\ docs = << >>
  /\ before_filter = NoProgram

ShiftIdle ==
  /\ md_in = << >> /\ level_in = 0 /\ name_in = << >>
  /\ shifted = << >> /\ block_out = NoResult

AssembleIdle ==
  /\ sections_in = << >> /\ ids_in = << >> /\ content_in = << >>
  /\ assembled = NoResult

\* The state when main is called.
Init == pc = "programs" /\ PipelineIdle /\ ShiftIdle /\ AssembleIdle

Next ==
  \/ SendRequest
  \/ HttpFailure
  \/ ProgramsResponse
  \/ IdsResponse
  \/ UuidsResponse
  \/ ContentResponse
  \/ Assemble
  \/ WriteMd
  \/ WriteHtm
  \/ WritePdf

Spec == Init /\ [][Next]_vars

\* -------------------------------------------- shift_headings on its own
Chars == {HASH, "a", NL}
Strings(n) == UNION {[1..k -> Chars] : k \in 0..n}
HeadingNames == { <<"m">>, <<HASH, "m">>, <<"m", NL, HASH, "z">> }

InitShift ==
  /\ pc = "shift" /\ PipelineIdle /\ AssembleIdle
  /\ md_in \in Strings(MaxLen)
  /\ level_in \in 0..MaxLevel
  /\ name_in \in HeadingNames
  /\ shifted = << >> /\ block_out = NoResult

\* shift_headings(md_in, level_in)
ApplyShift ==
  /\ pc = "shift"
  /\ shifted' = shift_headings(md_in, level_in)
  /\ pc' = "block"
  /\ UNCHANGED <<outstanding, page_num, programs, program_idx, longreads_ids,
                 longreads, longreads_content, program_content_md, files, failed,
                 fetch, requested, responses, log, content_requests, docs,
                 before_filter, md_in, level_in, name_in, block_out, assemble_vars>>

\* create_program_content_md for one material named name_in whose content is
\* md_in.
ApplyBlock ==
  /\ pc = "block"
  /\ block_out' = create_program_content_md(
       << [id |-> 1, name |-> <<"s">>, order |-> 1,
           materials |-> << [id |-> 1, name |-> name_in, order |-> 1] >>] >>,
       << [id |-> 1, content |-> md_in] >>)
  /\ pc' = "shift_done"
  /\ UNCHANGED <<outstanding, page_num, programs, program_idx, longreads_ids,
                 longreads, longreads_content, program_content_md, files, failed,
                 fetch, requested, responses, log, content_requests, docs,
                 before_filter, md_in, level_in, name_in, shifted, assemble_vars>>

NextShift == ApplyShift \/ ApplyBlock

SpecShift == InitShift /\ [][NextShift]_vars

\* ---------------------------------------- the document of a program on its own
\* The material in place m of section s is named after its place, so that the
\* blocks of a document tell where each came from.
SlotName(s, m) == << <<"p", "q">>, <<"r", "t">> >>[s][m]

MaterialLists(s) ==
  UNION { { [m \in 1..n |-> [id |-> idf[m], name |-> SlotName(s, m), order |-> of[m]]] :
              idf \in [1..n -> MaterialIds], of \in [1..n -> 1..MaxOrder] } : n \in 0..2 }

SectionsAt(s) ==
  { [id |-> s, name |-> <<"s">>, order |-> o, materials |-> ms] :
      o \in 1..MaxOrder, ms \in MaterialLists(s) }

SectionLists ==
  {<< >>} \cup {<<a>> : a \in SectionsAt(1)}
          \cup {<<a, b>> : a \in SectionsAt(1), b \in SectionsAt(2)}

IdLists == { <<1, 2>>, <<2>> }

ContentLists ==
  { << [id |-> 1, content |-> <<"x">>], [id |-> 2, content |-> <<HASH, "y">>] >>,
    << [id |-> 2, content |-> <<"y">>], [id |-> 1, content |-> <<"x">>],
       [id |-> 1, content |-> <<"z">>] >>,
    << [id |-> 2, content |-> <<"y">>] >> }

InitAssemble ==
  /\ pc = "document" /\ PipelineIdle /\ ShiftIdle
  /\ sections_in \in SectionLists
  /\ ids_in \in IdLists
  /\ content_in \in ContentLists
  /\ assembled = NoResult

\* main, lines 213-223, for a program whose sections are sections_in.
ApplyAssemble ==
  /\ pc = "document"
  /\ assembled' = program_document(
       [id |-> 1, name |-> <<"a">>, sections |-> sections_in, order |-> 1],
       ids_in, content_in).result
  /\ pc' = "document_done"
  /\ UNCHANGED <<outstanding, page_num, programs, program_idx, longreads_ids,
                 longreads, longreads_content, program_content_md, files, failed,
                 fetch, requested, responses, log, content_requests, docs,
                 before_filter, shift_vars, sections_in, ids_in, content_in>>

NextAssemble == ApplyAssemble

SpecAssemble == InitAssemble /\ [][NextAssemble]_vars

\* ================================================================ properties
\* The items of seq at the indices of S, in ascending order of index.
Picked(seq, S) ==
  [k \in 1..Cardinality(S) |->
     seq[CHOOSE i \in S : Cardinality({j \in S : j < i}) = k - 1]]

InLog(step, p) == \E k \in 1..Len(log) : log[k] = <<step, p>>
WriteSteps == {"md", "htm", "pdf"}
Written(p) == \E w \in WriteSteps : InLog(w, p)
FullyWritten(p) == \A w \in WriteSteps : InLog(w, p)

\* C1: an HTTP failure in any of the four fetches ends the run at once: the
\* step that fails leaves the script aborted with no file touched, and after
\* a failure no request is sent (none outstanding, no page or content
\* requested, no step logged) and no output file is written.
C1_FailureAborts ==
  [][ /\ (~failed /\ failed') => (pc' = "aborted" /\ outstanding' = 0 /\ files' = files)
      /\ failed => UNCHANGED <<outstanding, requested, content_requests, log, files, pc>>
    ]_vars

\* C1's case: the run was aborted by a failure of a request of the second
\* program, after the first program's files were written.
C1_Witness ==
  /\ failed /\ pc = "aborted" /\ program_idx = 2
  /\ log[Len(log)] = <<"content", 2>>

\* C2 as stated: a run aborted by an HTTP failure has written no output file
\* for any learning program.
C2_NoFileAtAll ==
  failed => \A f \in DOMAIN files : files[f] = NoFile

\* C2 as amended: a run aborted by an HTTP failure has written nothing for the
\* program it was processing nor for a later one, and has written the .md,
\* the .htm and the .pdf of every program before it; every file there is
\* bears the name of one of those earlier programs.
C2_NoFileOfCurrentProgram ==
  failed =>
    /\ \A p \in 1..Len(programs) :
         IF p < program_idx THEN FullyWritten(p) ELSE ~Written(p)
    /\ \A f \in DOMAIN files :
         files[f] # NoFile =>
           \E p \in 1..(program_idx - 1) : f[2] = sanitize_filename(programs[p].name)

\* C2's case: the failure comes while the second program is processed and the
\* first program's three files are there.
C2_Witness ==
  /\ failed /\ program_idx = 2
  /\ \A d \in Directories : files[<<d, sanitize_filename(programs[1].name)>>] # NoFile

StepRank(step) ==
  CASE step = "programs" -> 0
    [] step = "ids" -> 1
    [] step = "uuids" -> 2
    [] step = "content" -> 3
    [] step = "md" -> 4
    [] step = "htm" -> 5
    [] step = "pdf" -> 6

\* The place of a logged step in the script: the program, then the step.
LogKey(e) == 7 * e[2] + StepRank(e[1])

\* C3: the run is a linear script. At most one request is outstanding; the
\* steps come in the order program list, then per program in turn: material
\* types, longread page titles, contents, .md, .htm, .pdf, with no step out of
\* order, repeated later or interleaved with another program's; the list and
\* the two paginated fetches of a program are never skipped; a program's files
\* are written only when one content request per returned page entry has been
\* answered; and a program starts only after the .pdf of the one before it.
C3_LinearScript ==
  /\ outstanding \in {0, 1}
  /\ \A k \in 1..Len(log) :
       /\ k = 1 => log[k] = <<"programs", 0>>
       /\ k > 1 => LogKey(log[k - 1]) < LogKey(log[k])
       /\ k > 1 => log[k][2] \in 1..Len(programs)
       /\ log[k][1] \in {"uuids"} => log[k - 1] = <<"ids", log[k][2]>>
       /\ log[k][1] \in {"content"} => log[k - 1] = <<"uuids", log[k][2]>>
       /\ log[k][1] = "md" => log[k - 1] \in {<<"uuids", log[k][2]>>, <<"content", log[k][2]>>}
       /\ log[k][1] = "htm" => log[k - 1] = <<"md", log[k][2]>>
       /\ log[k][1] = "pdf" => log[k - 1] = <<"htm", log[k][2]>>
       /\ (log[k][1] = "ids" /\ log[k][2] > 1) => log[k - 1] = <<"pdf", log[k][2] - 1>>
       /\ (log[k][1] = "ids" /\ log[k][2] = 1) => log[k - 1] = <<"programs", 0>>
  /\ pc \in {"write_md", "write_htm", "write_pdf"} =>
       /\ outstanding = 0
       /\ content_requests = Len(longreads)
       /\ Len(longreads_content) = Len(longreads)
  /\ (program_idx >= 1 /\ program_idx <= Len(programs) /\ Written(program_idx)) =>
       pc \in {"write_htm", "write_pdf"}

\* C3's case: the second program's .htm is about to be rendered to .pdf after
\* two content fetches, the first program's files being written.
C3_Witness ==
  /\ pc = "write_pdf" /\ program_idx = 2 /\ content_requests = 2
  /\ FullyWritten(1) /\ InLog("htm", 2)

\* C5: after a run that completes without error every program has its own
\* .md, .htm and .pdf file, each holding that program's document, and no two
\* distinct programs share a file.
C5_OwnFilesPerProgram ==
  (pc = "done" /\ ~failed) =>
    /\ \A i \in 1..Len(programs) :
         LET fn == sanitize_filename(programs[i].name)
         IN /\ files[<<"md", fn>>] = docs[i]
            /\ files[<<"html", fn>>] = markdown_markdown(docs[i])
            /\ files[<<"pdf", fn>>] = pdfkit_from_file(markdown_markdown(docs[i]))
    /\ \A i, j \in 1..Len(programs) :
         i # j => sanitize_filename(programs[i].name) # sanitize_filename(programs[j].name)

\* The items of every response of the fetch, in page order.
AllItems == Concat([k \in 1..Len(responses) |-> responses[k].items])

\* The paginated fetch that is running or was the last to run has returned.
FetchReturned == fetch # "none" /\ pc # fetch /\ ~failed

\* The entry of a program as extracted from an item of the API.
SameMaterial(m, item) ==
  m = [id |-> item.id, name |-> item.name, order |-> item.order]
SameSection(sec, item) ==
  /\ sec.id = item.id /\ sec.name = item.name /\ sec.order = item.order
  /\ DOMAIN sec = {"id", "name", "order", "materials"}
  /\ Len(sec.materials) = Len(item.materials)
  /\ \A m \in 1..Len(item.materials) : SameMaterial(sec.materials[m], item.materials[m])
SameProgram(e, item) ==
  /\ e.id = item.id /\ e.name = item.name /\ e.order = item.order
  /\ Len(e.sections) = Len(item.sections)
  /\ \A k \in 1..Len(item.sections) : SameSection(e.sections[k], item.sections[k])

\* The ids of the longread materials among the items, in the items' order.
LongreadIdsIn(items) ==
  LET S == {i \in 1..Len(items) : items[i].type = "longread"}
  IN [k \in 1..Cardinality(S) |-> Picked(items, S)[k].id]

\* C6: a paginated fetch requests the pages 1, 2, 3, ... in turn, page 1
\* always; it goes past page p only when the response to page p reported
\* pages_count > p, and returns after the first response to a page p that
\* reported pages_count <= p, so that a constant pages_count N >= 1 makes N
\* requests and no page beyond the largest reported count is requested. What
\* it returns merges the items of the pages in page order: the lists
\* concatenated, the programs keyed by id with the last item of an id kept.
C6_Pagination ==
  fetch # "none" =>
    /\ Len(requested) >= 1
    /\ requested = [k \in 1..Len(requested) |-> k]
    /\ Len(responses) = Len(requested) - (IF failed THEN 1 ELSE outstanding)
    /\ \A k \in 1..Len(responses) :
         k < Len(requested) => responses[k].pages_count > k
    /\ FetchReturned =>
         /\ Len(responses) = Len(requested)
         /\ responses[Len(responses)].pages_count <= Len(responses)
         /\ \A n \in 1..MaxPagesCount :
              (\A k \in 1..Len(responses) : responses[k].pages_count = n)
                => Len(requested) = n
    /\ (fetch = "ids" /\ outstanding = 0) => longreads_ids = LongreadIdsIn(AllItems)
    /\ (fetch = "uuids" /\ outstanding = 0) =>
         longreads = [k \in 1..Len(AllItems) |->
                        [id |-> AllItems[k].longread_id, uuid |-> AllItems[k].uuid]]
    /\ (fetch = "programs" /\ outstanding = 0) =>
         /\ {programs[i].id : i \in 1..Len(programs)}
              = {AllItems[k].id : k \in 1..Len(AllItems)}
         /\ \A i, j \in 1..Len(programs) : programs[i].id = programs[j].id => i = j
         /\ \A i \in 1..Len(programs) :
              LET last == CHOOSE k \in 1..Len(AllItems) :
                            /\ AllItems[k].id = programs[i].id
                            /\ \A l \in (k + 1)..Len(AllItems) : AllItems[l].id # programs[i].id
              IN SameProgram(programs[i], AllItems[last])

\* C6's case: the program-list fetch stopped at page 2 of a constant 2, the
\* second page replacing the program of the first page under the same id.
C6_Witness ==
  /\ FetchReturned /\ fetch = "programs"
  /\ Len(requested) = 2 /\ responses[1].pages_count = 2 /\ responses[2].pages_count = 2
  /\ Len(AllItems) = 2 /\ Len(programs) = 1
  /\ AllItems[1].name # AllItems[2].name

Filtered == pc \in {"write_md", "write_htm", "write_pdf", "crashed"}

\* C8: get_longread_ids returns the ids of the materials of type 'longread'
\* of the materials-cr responses, in response order; filter_longreads leaves
\* in each section the materials whose id is among them, in their former
\* order, and changes nothing else of the program: the sections, emptied ones
\* too, stay as they were and where they were.
C8_OnlyLongreads ==
  /\ (fetch = "ids" /\ outstanding = 0) => longreads_ids = LongreadIdsIn(AllItems)
  /\ Filtered =>
       LET old == before_filter
           new == programs[program_idx]
       IN /\ DOMAIN new = DOMAIN old
          /\ new.id = old.id /\ new.name = old.name /\ new.order = old.order
          /\ Len(new.sections) = Len(old.sections)
          /\ \A k \in 1..Len(old.sections) :
               LET was == old.sections[k]
                   is == new.sections[k]
               IN /\ DOMAIN is = DOMAIN was
                  /\ is.id = was.id /\ is.name = was.name /\ is.order = was.order
                  /\ is.materials =
                       Picked(was.materials,
                              {i \in 1..Len(was.materials) :
                                 \E j \in 1..Len(longreads_ids) :
                                    longreads_ids[j] = was.materials[i].id})

\* C8's case: of the two materials of a section the second alone is a
\* longread, and the program's other section is left with no material.
C8_Witness ==
  /\ pc = "write_md" /\ longreads_ids = <<2>>
  /\ Len(before_filter.sections) = 2
  /\ Len(before_filter.sections[1].materials) = 2
  /\ Len(before_filter.sections[2].materials) = 1
  /\ Len(programs[program_idx].sections) = 2
  /\ Len(programs[program_idx].sections[1].materials) = 1
  /\ programs[program_idx].sections[2].materials = << >>

\* The entries of longreads_content that are the first of their id.
FirstEntries ==
  Picked(longreads_content,
         {k \in 1..Len(longreads_content) :
            \A j \in 1..(k - 1) : longreads_content[j].id # longreads_content[k].id})

\* C9: one content request is sent per page entry that get_longreads_uuids
\* returned, entry by entry, equal ids included; the document is the one that
\* the first entry of each id alone would give.
C9_FirstEntryOnly ==
  pc \in {"write_md", "write_htm", "write_pdf"} =>
    /\ content_requests = Len(longreads)
    /\ Len(longreads_content) = Len(longreads)
    /\ \A k \in 1..Len(longreads) : longreads_content[k].id = longreads[k].id
    /\ program_content_md =
         TOC \o create_program_content_md(sorted(programs[program_idx].sections),
                                          FirstEntries).md

\* C9's case: two entries of the longread of a material of the document, with
\* different contents.
C9_Witness ==
  /\ pc = "write_md" /\ Len(longreads_content) = 2
  /\ longreads_content[1].id = longreads_content[2].id
  /\ longreads_content[1].content # longreads_content[2].content
  /\ \E k \in 1..Len(programs[program_idx].sections) :
       \E m \in 1..Len(programs[program_idx].sections[k].materials) :
          programs[program_idx].sections[k].materials[m].id = longreads_content[1].id

\* A material of the current program that filter_longreads retains and that
\* has no fetched content.
MissingContent ==
  \E k \in 1..Len(programs[program_idx].sections) :
    \E m \in 1..Len(programs[program_idx].sections[k].materials) :
       LET id == programs[program_idx].sections[k].materials[m].id
       IN /\ \E j \in 1..Len(longreads_ids) : longreads_ids[j] = id
          /\ \A j \in 1..Len(longreads_content) : longreads_content[j].id # id

\* C10: when a retained material has no fetched content the assembly raises
\* and the run ends there: the step writes no file, nothing is written for
\* that program, no step follows, and the files of the programs before it,
\* all written, stay as they are. The assembly raises in no other case.
C10_MissingContentCrashes ==
  [][ /\ pc = "assemble" => (pc' = "crashed" <=> MissingContent)
      /\ pc' = "crashed" =>
           /\ pc = "assemble" /\ files' = files /\ log' = log
           /\ program_idx' = program_idx
           /\ ~Written(program_idx)
           /\ \A p \in 1..(program_idx - 1) : FullyWritten(p)
      /\ pc # "crashed"
    ]_vars

\* C10's case: the second program has a longread with no page entry, after
\* the first program's files were written.
C10_Witness ==
  /\ pc = "crashed" /\ program_idx = 2 /\ longreads = << >>
  /\ FullyWritten(1)
  /\ \E f \in DOMAIN files : files[f] # NoFile

\* ------------------------------------------------------------ the document
\* The places <<section, material>> of the materials of sections_in whose id
\* is in ids_in.
Retained ==
  {sm \in UNION {{<<k, m>> : m \in 1..Len(sections_in[k].materials)} :
                    k \in 1..Len(sections_in)} :
     \E j \in 1..Len(ids_in) : ids_in[j] = sections_in[sm[1]].materials[sm[2]].id}

MaterialAt(sm) == sections_in[sm[1]].materials[sm[2]]

\* a comes before b in the document: by the 'order' of the section, then the
\* place of the section, then the 'order' of the material, then its place.
Precedes(a, b) ==
  LET sa == sections_in[a[1]]
      sb == sections_in[b[1]]
  IN \/ sa.order < sb.order
     \/ sa.order = sb.order /\ a[1] < b[1]
     \/ /\ a[1] = b[1]
        /\ \/ MaterialAt(a).order < MaterialAt(b).order
           \/ MaterialAt(a).order = MaterialAt(b).order /\ a[2] < b[2]

\* The content of the first entry of content_in with the id.
ContentOf(id) ==
  content_in[CHOOSE i \in 1..Len(content_in) :
               /\ content_in[i].id = id
               /\ \A j \in 1..(i - 1) : content_in[j].id # id].content

\* The block of a material: its name as a level-1 heading, then its content.
ExpectedBlock(sm) ==
  <<HASH, " ">> \o MaterialAt(sm).name \o <<NL, NL, NL>>
    \o shift_headings(ContentOf(MaterialAt(sm).id), 1) \o <<NL>>

ExpectedDocument ==
  Concat([k \in 1..Cardinality(Retained) |->
            ExpectedBlock(CHOOSE a \in Retained :
                            Cardinality({b \in Retained : Precedes(b, a)}) = k - 1)])

AllHaveContent ==
  \A sm \in Retained : \E i \in 1..Len(content_in) : content_in[i].id = MaterialAt(sm).id

\* C4: the document is the blocks of the retained materials, one block each
\* and nothing else, the sections in ascending 'order', the materials of a
\* section in ascending 'order', equal orders in the order given; a block is
\* the material's name as a level-1 heading, then its content.
C4_DocumentOrder ==
  (pc = "document_done" /\ AllHaveContent) =>
    /\ ~assembled.raised
    /\ assembled.md = ExpectedDocument

\* C4's case: two sections of equal order given as first and second, the
\* first with two retained materials of equal order, and a dropped material.
C4_Witness ==
  /\ pc = "document_done" /\ AllHaveContent /\ ~assembled.raised
  /\ Len(sections_in) = 2
  /\ sections_in[1].order = sections_in[2].order
  /\ Len(sections_in[1].materials) = 2
  /\ sections_in[1].materials[1].order = sections_in[1].materials[2].order
  /\ Len(sections_in[2].materials) = 2
  /\ sections_in[2].materials[1].order > sections_in[2].materials[2].order
  /\ Cardinality(Retained) = 3

\* ---------------------------------------------------------- shift_headings
RECURSIVE Lines(_)
\* The lines of a text: what stands between its newlines.
Lines(text) ==
  IF \A i \in 1..Len(text) : text[i] # NL THEN <<text>>
  ELSE LET n == CHOOSE i \in 1..Len(text) :
                  text[i] = NL /\ \A j \in 1..(i - 1) : text[j] # NL
       IN <<SubSeq(text, 1, n - 1)>> \o Lines(SubSeq(text, n + 1, Len(text)))

\* The length of the run of '#' a line begins with: its heading level.
Level(line) ==
  Cardinality({k \in 1..Len(line) : \A j \in 1..k : line[j] = HASH})

\* A line with n more '#' after the run of '#' it begins with.
Deeper(line, n) ==
  IF Level(line) = 0 THEN line
  ELSE SubSeq(line, 1, Level(line)) \o [i \in 1..n |-> HASH]
         \o SubSeq(line, Level(line) + 1, Len(line))

\* The places of a document where a line of heading level 1 begins.
LevelOneStarts(doc) ==
  {p \in 1..Len(doc) :
     /\ p = 1 \/ doc[p - 1] = NL
     /\ doc[p] = HASH
     /\ p = Len(doc) \/ doc[p + 1] # HASH}

\* C7: shift_headings(md, level) gives md with `level` more '#' after the
\* leading run of '#' of each line that begins with '#', the other lines and
\* the number of lines as they were. In a document the content of a material
\* follows its heading line and two empty lines, each of its headings one
\* level deeper than fetched, so that a line of level 1 begins only within
\* the heading made of the material's name.
C7_HeadingsShifted ==
  /\ pc \in {"block", "shift_done"} =>
       Lines(shifted) = [k \in 1..Len(Lines(md_in)) |-> Deeper(Lines(md_in)[k], level_in)]
  /\ pc = "shift_done" =>
       LET doc == block_out.md
           head == 2 + Len(name_in)
           body == SubSeq(doc, head + 4, Len(doc) - 1)
       IN /\ ~block_out.raised
          /\ SubSeq(doc, 1, head + 3) = <<HASH, " ">> \o name_in \o <<NL, NL, NL>>
          /\ doc[Len(doc)] = NL
          /\ Len(Lines(body)) = Len(Lines(md_in))
          /\ \A k \in 1..Len(Lines(md_in)) :
               /\ Lines(body)[k] = Deeper(Lines(md_in)[k], 1)
               /\ Level(Lines(body)[k]) =
                    (IF Level(Lines(md_in)[k]) = 0 THEN 0 ELSE Level(Lines(md_in)[k]) + 1)
          /\ 1 \in LevelOneStarts(doc)
          /\ LevelOneStarts(doc) \subseteq 1..head

\* C7's case: a line with a '#' that does not begin it, then a level-1
\* heading, shifted by two levels.
C7_Witness ==
  /\ pc = "shift_done" /\ level_in = 2
  /\ md_in = <<"a", HASH, NL, HASH>>
  /\ shifted = <<"a", HASH, NL, HASH, HASH, HASH>>

====
